---- MODULE Spec2Model ----
(***************************************************************************)
(* Command-line wrappers of nibabies/interfaces/workbench.py: seven        *)
(* wb_command interfaces declared as input specs (fields with type,        *)
(* mandatory/requires metadata, argstr and position), two _format_arg      *)
(* overrides, and the run of one invocation: assign inputs, check the      *)
(* mandatory/requires metadata, assemble the command line, spawn the       *)
(* child process, collect the declared output.                             *)
(*                                                                         *)
(* Text is a sequence of atoms: an atom is either the blank " " or a       *)
(* fragment without blanks.  Concatenating two texts concatenates the      *)
(* sequences, so two fragments that meet without a blank between them      *)
(* form ONE whitespace-separated token (see Tokens).                       *)
(***************************************************************************)
EXTENDS Integers, Sequences, FiniteSets, TLC

VARIABLES
    cls,        \* the interface class of this invocation
    inputs,     \* field name -> value held by self.inputs
    rejected,   \* the assignment the traits refused last, or NoRejection
    pc,         \* "assign", "validated", "rendered", "exited", "done"
    args,       \* the rendered arguments, in command-line order, with their field
    outcome,    \* what run() gave the caller: "none", "Result" or an error
    errfield,   \* the field a validation error names
    returncode, \* exit status of the child
    outExists,  \* whether the resolved out_file exists after the child exited
    spawned,    \* how many times the child process was started
    trace       \* the steps of run() taken so far, in order

vars == <<cls, inputs, rejected, pc, args, outcome, errfield, returncode, outExists,
          spawned, trace>>

----------------------------------------------------------------------------
(* Bounds of the model *)

\* longest list assigned to a multi-object field
MaxLen == 2
\* how many optional fields one invocation sets
MaxOpt == 3

----------------------------------------------------------------------------
(* Values *)

Undefined == [t |-> "Undefined"]
B(b) == [t |-> "bool", b |-> b]
S(s) == [t |-> "str", s |-> s]
I(n) == [t |-> "int", n |-> n]
\* a float, held in tenths: Fl(8) is 0.8
Fl(n) == [t |-> "float", tenths |-> n]
\* a path: directory, file name as <<stem, ".ext", ...>>, and whether it is an existing file
P(dir, name, exists) == [t |-> "path", dir |-> dir, name |-> name, exists |-> exists]
L(items) == [t |-> "list", items |-> items]
Tup(items) == [t |-> "tuple", items |-> items]

isdefined(v) == v # Undefined

\* bool(v) of Python: Undefined has length 0, False is false, the rest used here is true
Truthy(v) == IF v.t = "Undefined" THEN FALSE ELSE IF v.t = "bool" THEN v.b ELSE TRUE

RECURSIVE ConcatStr(_)
ConcatStr(pieces) ==
    IF pieces = <<>> THEN "" ELSE Head(pieces) \o ConcatStr(Tail(pieces))

\* str(path)
PathStr(p) == IF p.dir = "" THEN ConcatStr(p.name) ELSE p.dir \o "/" \o ConcatStr(p.name)

VALID_STRUCTURES ==
    { "CORTEX_LEFT", "CORTEX_RIGHT", "CEREBELLUM", "ACCUMBENS_LEFT", "ACCUMBENS_RIGHT",
      "ALL_GREY_MATTER", "ALL_WHITE_MATTER", "AMYGDALA_LEFT", "AMYGDALA_RIGHT",
      "BRAIN_STEM", "CAUDATE_LEFT", "CAUDATE_RIGHT", "CEREBELLAR_WHITE_MATTER_LEFT",
      "CEREBELLAR_WHITE_MATTER_RIGHT", "CEREBELLUM_LEFT", "CEREBELLUM_RIGHT",
      "CEREBRAL_WHITE_MATTER_LEFT", "CEREBRAL_WHITE_MATTER_RIGHT", "CORTEX",
      "DIENCEPHALON_VENTRAL_LEFT", "DIENCEPHALON_VENTRAL_RIGHT", "HIPPOCAMPUS_LEFT",
      "HIPPOCAMPUS_RIGHT", "INVALID", "OTHER", "OTHER_GREY_MATTER", "OTHER_WHITE_MATTER",
      "PALLIDUM_LEFT", "PALLIDUM_RIGHT", "PUTAMEN_LEFT", "PUTAMEN_RIGHT",
      "THALAMUS_LEFT", "THALAMUS_RIGHT" }

----------------------------------------------------------------------------
(* Field declarations: one record per trait of an input spec *)

\* a name_template "<pre>%s<suf><exts>"
Template(pre, suf, exts) == [pre |-> pre, suf |-> suf, exts |-> exts]

\* a trait with no metadata
Trait(name, type) ==
    [ name |-> name, type |-> type, exists |-> FALSE, mandatory |-> FALSE,
      positioned |-> FALSE, position |-> 0, hasArg |-> FALSE, flag |-> "", fmt |-> "",
      requires |-> {}, usedefault |-> FALSE, default |-> Undefined, values |-> {},
      arities |-> {}, name_source |-> "", template |-> Template("", "", <<>>),
      keep_extension |-> FALSE ]

\* argstr="<flag> <fmt>": the literal flag and the conversion part
Argstr(f, flag, fmt) == [f EXCEPT !.hasArg = TRUE, !.flag = flag, !.fmt = fmt]
Position(f, p) == [f EXCEPT !.positioned = TRUE, !.position = p]
\* mandatory=True left out of the declaration
Mandatory_Omitted(f) == f
Mandatory(f) == [f EXCEPT !.mandatory = TRUE]
\* the keyword misspelt, as traits then ignores it
Requires_Misspelt(f, names) == f
Requires(f, names) == [f EXCEPT !.requires = names]
Exists(f) == [f EXCEPT !.exists = TRUE]
\* usedefault=True left out: the default is not made the value
UseDefault_Unused(f, v) == f
UseDefault(f, v) == [f EXCEPT !.usedefault = TRUE, !.default = v]
NameSource(f, src, tpl, keep) ==
    [f EXCEPT !.name_source = src, !.template = tpl, !.keep_extension = keep]

FileTrait(name) == Trait(name, "File")
BoolTrait(name) == Trait(name, "Bool")
FloatTrait(name) == Trait(name, "Float")
IntTrait(name) == Trait(name, "Int")
EnumTrait(name, values) == [Trait(name, "Enum") EXCEPT !.values = values]
EitherIntStr(name) == Trait(name, "IntOrStr")
MultiFile(name) == Exists(Trait(name, "MultiFile"))
\* InputMultiObject of Tuple(Enum(VALID_STRUCTURES), File(exists=True)[, Bool()])
MultiTuple(name, arities) ==
    [Trait(name, "MultiTuple") EXCEPT !.arities = arities, !.values = VALID_STRUCTURES]

\* the template _filename_from_source falls back to when name_template is not given
DefaultTemplate == Template("", "_generated", <<>>)

SeriesUnits == {"SECOND", "HERTZ", "METER", "RADIAN"}

CiftiCreateDenseFromTemplateInputSpec ==
    << Position(Argstr(Mandatory(Exists(FileTrait("in_file"))), "", "%s"), 0),
       Position(Argstr(NameSource(FileTrait("out_file"), "in_file", DefaultTemplate, FALSE),
                       "", "%s"), 1),
       Position(Argstr(BoolTrait("series"), "-series", ""), 2),
       Position(Argstr(Requires(FloatTrait("series_step"), {"series"}), "", "%.1f"), 3),
       Position(Argstr(Requires(FloatTrait("series_start"), {"series"}), "", "%.1f"), 4),
       \* the keyword is spelled requries in the declaration: no requires metadata
       Position(Argstr(EnumTrait("series_unit", SeriesUnits), "-unit", "%s"), 5),
       Position(Argstr(Exists(FileTrait("volume_all")), "-volume-all", "%s"), 6),
       Position(Argstr(Requires(BoolTrait("volume_all_from_cropped"), {"volume_all"}),
                       "-from-cropped", ""), 7),
       Position(Argstr(EnumTrait("label_collision", {"ERROR", "SURFACES_FIRST", "LEGACY"}),
                       "-label-collision", "%s"), 8),
       Position(Argstr(MultiFile("cifti"), "-cifti", "%s"), 9),
       Position(Argstr(MultiTuple("metric", {2}), "", "%s"), 10),
       Position(Argstr(MultiTuple("label", {2}), "", "%s"), 11),
       Position(Argstr(MultiTuple("volume", {2, 3}), "", "%s"), 12) >>

CiftiCreateDenseTimeseriesInputSpec ==
    << Position(Argstr(NameSource(FileTrait("out_file"), "in_file",
                                  Template("", "", <<".dtseries", ".nii">>), FALSE),
                       "", "%s"), 0),
       Position(Argstr(Mandatory(Exists(FileTrait("in_file"))), "-volume", "%s"), 1),
       Position(Argstr(Mandatory(Exists(FileTrait("structure_label_volume"))), "", "%s"), 2),
       Position(Argstr(Exists(FileTrait("left_metric")), "-left-metric", "%s"), 3),
       Position(Argstr(Requires(Exists(FileTrait("roi_left")), {"left_metric"}),
                       "-roi-left", "%s"), 4),
       Position(Argstr(Exists(FileTrait("right_metric")), "-right-metric", "%s"), 5),
       Position(Argstr(Requires(Exists(FileTrait("roi_right")), {"right_metric"}),
                       "-roi-right", "%s"), 6),
       Position(Argstr(Exists(FileTrait("cerebellum_metric")), "-cerebellum-metric", "%s"), 7),
       Position(Argstr(Requires(Exists(FileTrait("roi_cerebellum")), {"cerebellum_metric"}),
                       "-roi-cerebellum", "%s"), 8),
       Argstr(UseDefault(FloatTrait("timestep"), Fl(10)), "-timestep", "%g"),
       Argstr(UseDefault(FloatTrait("timestart"), Fl(0)), "-timestart", "%g"),
       Argstr(UseDefault(EnumTrait("unit", SeriesUnits), S("SECOND")), "-unit", "%s") >>

CiftiDilateInputSpec ==
    << Position(Argstr(Mandatory(Exists(FileTrait("in_file"))), "", "%s"), 0),
       Position(Argstr(Mandatory(EnumTrait("direction", {"ROW", "COLUMN"})), "", "%s"), 1),
       Position(Argstr(Mandatory(IntTrait("surface_distance")), "", "%d"), 2),
       Position(Argstr(Mandatory(IntTrait("volume_distance")), "", "%d"), 3),
       Position(Argstr(NameSource(FileTrait("out_file"), "in_file",
                                  Template("dilated_", "", <<".nii">>), TRUE),
                       "", "%s"), 4),
       Position(Argstr(Exists(FileTrait("left_surface")), "-left-surface", "%s"), 5),
       Position(Argstr(Requires(Exists(FileTrait("left_corrected_areas")), {"left_surface"}),
                       "-left-corrected-areas", "%s"), 6),
       Position(Argstr(Exists(FileTrait("right_surface")), "-right-surface", "%s"), 7),
       Position(Argstr(Requires(Exists(FileTrait("right_corrected_areas")), {"right_surface"}),
                       "-right-corrected-areas", "%s"), 8),
       Position(Argstr(Exists(FileTrait("cerebellum_surface")), "-cerebellum-surface", "%s"), 9),
       Position(Argstr(Requires(Exists(FileTrait("cerebellum_corrected_areas")),
                                {"cerebellum_surface"}),
                       "-cerebellum-corrected-areas", "%s"), 10),
       Position(Argstr(Exists(FileTrait("bad_brainordinate_roi")),
                       "-bad-brainordinate-roi", "%s"), 11),
       Position(Argstr(BoolTrait("nearest"), "-nearest", ""), 12),
       Position(Argstr(BoolTrait("merged_volume"), "-merged-volume", ""), 13),
       Position(Argstr(BoolTrait("legacy_mode"), "-legacy-mode", ""), 14) >>

VolumeAffineResampleInputSpec ==
    << Position(Argstr(Mandatory(Exists(FileTrait("in_file"))), "", "%s"), 0),
       Position(Argstr(Mandatory(Exists(FileTrait("volume_space"))), "", "%s"), 1),
       Position(Argstr(Mandatory(EnumTrait("method", {"CUBIC", "ENCLOSING_VOXEL", "TRILINEAR"})),
                       "", "%s"), 2),
       Position(Argstr(NameSource(FileTrait("out_file"), "in_file",
                                  Template("resampled_", "", <<".nii", ".gz">>), TRUE),
                       "", "%s"), 3),
       Position(Argstr(Mandatory(Exists(FileTrait("affine"))), "-affine", "%s"), 4),
       Position(Argstr(BoolTrait("flirt"), "-flirt", "%s %s"), 5),
       Requires(Exists(FileTrait("flirt_source_volume")), {"flirt"}),
       Requires(Exists(FileTrait("flirt_target_volume")), {"flirt"}) >>

\* out_file declared with the position of label_map
VolumeAllLabelsToROIsInputSpec_SamePosition ==
    << Position(Argstr(Mandatory(Exists(FileTrait("in_file"))), "", "%s"), 0),
       Position(Argstr(Mandatory(EitherIntStr("label_map")), "", "%s"), 1),
       Position(Argstr(NameSource(FileTrait("out_file"), "in_file",
                                  Template("", "_rois", <<".nii", ".gz">>), FALSE),
                       "", "%s"), 1) >>

VolumeAllLabelsToROIsInputSpec ==
    << Position(Argstr(Mandatory(Exists(FileTrait("in_file"))), "", "%s"), 0),
       Position(Argstr(Mandatory(EitherIntStr("label_map")), "", "%s"), 1),
       Position(Argstr(NameSource(FileTrait("out_file"), "in_file",
                                  Template("", "_rois", <<".nii", ".gz">>), FALSE),
                       "", "%s"), 2) >>

\* out_file declared with the name_template of VolumeLabelImport
VolumeLabelExportTableInputSpec_ImportTemplate ==
    << Position(Argstr(Mandatory(Exists(FileTrait("in_file"))), "", "%s"), 0),
       Position(Argstr(Mandatory(EitherIntStr("label_map")), "", "%s"), 1),
       Position(Argstr(NameSource(FileTrait("out_file"), "in_file",
                                  Template("", "_labels", <<".nii", ".gz">>), FALSE),
                       "", "%s"), 2) >>

VolumeLabelExportTableInputSpec ==
    << Position(Argstr(Mandatory(Exists(FileTrait("in_file"))), "", "%s"), 0),
       Position(Argstr(Mandatory(EitherIntStr("label_map")), "", "%s"), 1),
       Position(Argstr(NameSource(FileTrait("out_file"), "in_file",
                                  Template("", "_labels", <<".txt">>), FALSE),
                       "", "%s"), 2) >>

VolumeLabelImportInputSpec ==
    << Position(Argstr(Mandatory(Exists(FileTrait("in_file"))), "", "%s"), 0),
       Position(Argstr(Mandatory(Exists(FileTrait("label_list_file"))), "", "%s"), 1),
       Position(Argstr(NameSource(FileTrait("out_file"), "in_file",
                                  Template("", "_labels", <<".nii", ".gz">>), FALSE),
                       "", "%s"), 2),
       Argstr(BoolTrait("discard_others"), "-discard-others", ""),
       Argstr(UseDefault(IntTrait("unlabeled_values"), I(0)), "-unlabeled-value", "%d"),
       Argstr(EitherIntStr("subvolume"), "-subvolume", "%s"),
       Argstr(BoolTrait("drop_unused_labels"), "-drop-unused-labels", "") >>

Classes ==
    { "CiftiCreateDenseFromTemplate", "CiftiCreateDenseTimeseries", "CiftiDilate",
      "VolumeAffineResample", "VolumeAllLabelsToROIs", "VolumeLabelExportTable",
      "VolumeLabelImport" }

\* input_spec of each interface class
input_spec(c) ==
    CASE c = "CiftiCreateDenseFromTemplate" -> CiftiCreateDenseFromTemplateInputSpec
      [] c = "CiftiCreateDenseTimeseries" -> CiftiCreateDenseTimeseriesInputSpec
      [] c = "CiftiDilate" -> CiftiDilateInputSpec
      [] c = "VolumeAffineResample" -> VolumeAffineResampleInputSpec
      [] c = "VolumeAllLabelsToROIs" -> VolumeAllLabelsToROIsInputSpec
      [] c = "VolumeLabelExportTable" -> VolumeLabelExportTableInputSpec
      [] c = "VolumeLabelImport" -> VolumeLabelImportInputSpec

\* _cmd of each interface class, as text
cmd(c) ==
    CASE c = "CiftiCreateDenseFromTemplate" ->
            <<"wb_command", " ", "-cifti-create-dense-from-template">>
      [] c = "CiftiCreateDenseTimeseries" ->
            <<"wb_command", " ", "-cifti-create-dense-timeseries">>
      [] c = "CiftiDilate" -> <<"wb_command", " ", "-cifti-dilate">>
      [] c = "VolumeAffineResample" -> <<"wb_command", " ", "-volume-resample">>
      [] c = "VolumeAllLabelsToROIs" -> <<"wb_command", " ", "-volume-all-labels-to-rois">>
      [] c = "VolumeLabelExportTable" -> <<"wb_command", " ", "-volume-label-export-table">>
      [] c = "VolumeLabelImport" -> <<"wb_command", " ", "-volume-label-import">>

\* the output specs declare out_file = FileTrait(exists=True)
OutputMustExist_NotChecked(c) == FALSE

OutputMustExist(c) == TRUE

FieldNames(c) == {input_spec(c)[i].name : i \in 1..Len(input_spec(c))}
trait(c, name) ==
    LET i == CHOOSE k \in 1..Len(input_spec(c)) : input_spec(c)[k].name = name
    IN  input_spec(c)[i]

----------------------------------------------------------------------------
(* Trait validation: what an assignment to self.inputs.<name> accepts *)

\* the first element declared as a plain string instead of Enum(VALID_STRUCTURES)
TupleTraitOk_AnyStructure(f, v) ==
    /\ v.t = "tuple"
    /\ Len(v.items) \in f.arities
    /\ v.items[1].t = "str"
    /\ v.items[2].t = "path" /\ v.items[2].exists
    /\ Len(v.items) = 3 => v.items[3].t = "bool"

\* Tuple(Enum(VALID_STRUCTURES), File(exists=True)) and, where arity 3 is declared,
\* Tuple(Enum(VALID_STRUCTURES), File(exists=True), Bool())
TupleTraitOk(f, v) ==
    /\ v.t = "tuple"
    /\ Len(v.items) \in f.arities
    /\ v.items[1].t = "str" /\ v.items[1].s \in f.values
    /\ v.items[2].t = "path" /\ v.items[2].exists
    /\ Len(v.items) = 3 => v.items[3].t = "bool"

\* InputMultiObject: a value that is not a list becomes a one-element list
AsList(v) == IF v.t = "list" THEN v.items ELSE <<v>>

\* whether the trait f accepts the value v
TraitOk(f, v) ==
    CASE f.type = "File" -> v.t = "path" /\ (f.exists => v.exists)
      [] f.type = "Bool" -> v.t = "bool"
      [] f.type = "Float" -> v.t \in {"float", "int"}
      [] f.type = "Int" -> v.t = "int"
      [] f.type = "Enum" -> v.t = "str" /\ v.s \in f.values
      [] f.type = "IntOrStr" -> v.t \in {"int", "str"}
      [] f.type = "MultiFile" ->
            /\ AsList(v) # <<>>
            /\ \A i \in 1..Len(AsList(v)) : AsList(v)[i].t = "path" /\ AsList(v)[i].exists
      [] f.type = "MultiTuple" ->
            /\ AsList(v) # <<>>
            /\ \A i \in 1..Len(AsList(v)) : TupleTraitOk(f, AsList(v)[i])

\* the value the trait stores for an accepted v
TraitValue(f, v) ==
    CASE f.type = "Float" /\ v.t = "int" -> Fl(10 * v.n)
      [] f.type \in {"MultiFile", "MultiTuple"} -> L(AsList(v))
      [] OTHER -> v

----------------------------------------------------------------------------
(* The values the caller assigns *)

DataDir == "/data"
Existing(name) == P(DataDir, name, TRUE)
Missing == P(DataDir, <<"missing", ".nii">>, FALSE)

InFiles(c) ==
    CASE c \in {"CiftiCreateDenseFromTemplate", "CiftiDilate"} ->
            {Existing(<<"func", ".dtseries", ".nii">>)}
      [] c \in {"CiftiCreateDenseTimeseries", "VolumeAffineResample"} ->
            {Existing(<<"functional", ".nii">>)}
      [] OTHER ->
            {Existing(<<"atlas", ".nii">>), Existing(<<"T1w", ".nii", ".gz">>),
             Existing(<<"func", ".dtseries", ".nii">>), Existing(<<"labels">>)}

ExplicitOut == P("", <<"out", ".dtseries", ".nii">>, FALSE)

SampleEnums == {"HERTZ", "LEGACY", "ROW", "COLUMN", "CUBIC"}

RECURSIVE ListsUpTo(_, _)
\* the non-empty lists of length at most n that name no element of elems twice
ListsUpTo(elems, n) ==
    IF n = 0 THEN {}
    ELSE LET shorter == ListsUpTo(elems, n - 1)
         IN  {<<x>> : x \in elems} \cup shorter
             \cup UNION {{Append(q, x) : x \in {y \in elems : \A i \in 1..Len(q) : q[i] # y}} :
                         q \in shorter}

Vol == Existing(<<"functional", ".nii">>)

\* tuples the trait of the field accepts
GoodTuples(name) ==
    CASE name = "metric" ->
            {Tup(<<S("CORTEX_LEFT"), Vol>>), Tup(<<S("CORTEX_RIGHT"), Vol>>)}
      [] name = "label" -> {Tup(<<S("CEREBELLUM"), Vol>>)}
      [] name = "volume" ->
            {Tup(<<S("OTHER"), Vol, B(TRUE)>>), Tup(<<S("PUTAMEN_LEFT"), Vol>>),
             Tup(<<S("THALAMUS_LEFT"), Vol, B(FALSE)>>)}

\* tuples with a structure outside VALID_STRUCTURES or a wrong arity
BadTuples(name) ==
    IF name = "volume"
    THEN {Tup(<<S("CORTEX_MIDDLE"), Vol, B(TRUE)>>), Tup(<<S("OTHER"), Vol, S("cropped")>>),
          Tup(<<S("OTHER")>>)}
    ELSE {Tup(<<S("CORTEX_MIDDLE"), Vol>>), Tup(<<S("OTHER"), Vol, B(TRUE)>>)}

MetricLists == {L(q) : q \in ListsUpTo(GoodTuples("metric"), MaxLen)}
LabelLists == {L(q) : q \in ListsUpTo(GoodTuples("label"), MaxLen)}
VolumeLists == {L(q) : q \in ListsUpTo(GoodTuples("volume"), MaxLen)}
CiftiLists == {L(q) : q \in ListsUpTo({Existing(<<"ones", ".dscalar", ".nii">>)}, MaxLen)}

\* the lists the caller assigns to a field of tuples, accepted or not
TupleLists(name) ==
    (CASE name = "metric" -> MetricLists
       [] name = "label" -> LabelLists
       [] name = "volume" -> VolumeLists)
    \cup {L(<<b>>) : b \in BadTuples(name)}

\* what the caller may assign to field f of class c, accepted or not
RawValues(c, f) ==
    CASE f.type = "File" /\ f.name = "in_file" -> InFiles(c) \cup {Missing}
      [] f.type = "File" /\ f.name = "out_file" -> {ExplicitOut}
      [] f.type = "File" /\ f.name \notin {"in_file", "out_file"} ->
            {Existing(<<f.name, ".nii">>)}
      [] f.type = "Bool" -> {B(TRUE), B(FALSE)}
      [] f.type = "Float" -> {Fl(8), I(0)}
      [] f.type = "Int" -> {I(10)}
      [] f.type = "Enum" -> {S(x) : x \in f.values \cap SampleEnums}
      [] f.type = "IntOrStr" -> {I(1), S("roi")}
      [] f.type = "MultiFile" -> CiftiLists
      [] f.type = "MultiTuple" -> TupleLists(f.name)

----------------------------------------------------------------------------
(* Text and formatting *)

SP == " "

RECURSIVE Join(_, _)
\* sep.join(texts) for a sequence of texts
Join(sep, texts) ==
    IF texts = <<>> THEN <<>>
    ELSE IF Len(texts) = 1 THEN texts[1]
    ELSE texts[1] \o sep \o Join(sep, Tail(texts))

RECURSIVE TokensFrom(_, _, _)
TokensFrom(text, i, cur) ==
    IF i > Len(text) THEN (IF cur = "" THEN <<>> ELSE <<cur>>)
    ELSE IF text[i] = SP
         THEN (IF cur = "" THEN <<>> ELSE <<cur>>) \o TokensFrom(text, i + 1, "")
         ELSE TokensFrom(text, i + 1, cur \o text[i])

\* text.split(): the whitespace-separated tokens; fragments that touch make one token
Tokens(text) == TokensFrom(text, 1, "")

Digits == <<"0", "1", "2", "3", "4", "5", "6", "7", "8", "9">>

RECURSIVE IntStr(_)
\* "%d" % n for n >= 0
IntStr(n) == IF n < 10 THEN Digits[n + 1] ELSE IntStr(n \div 10) \o Digits[(n % 10) + 1]

\* "%.1f" % x, x held in tenths
FixedStr(tenths) == IntStr(tenths \div 10) \o "." \o IntStr(tenths % 10)

\* "%g" % x, x held in tenths: no trailing zeros, no trailing point
GeneralStr(tenths) ==
    IF tenths % 10 = 0 THEN IntStr(tenths \div 10) ELSE FixedStr(tenths)

\* str(v) for the values a "%s" conversion meets
Str(v) ==
    CASE v.t = "str" -> v.s
      [] v.t = "path" -> PathStr(v)
      [] v.t = "int" -> IntStr(v.n)
      [] v.t = "float" -> FixedStr(v.tenths)
      [] v.t = "bool" -> IF v.b THEN "True" ELSE "False"

Rendered(text) == [kind |-> "text", text |-> text]
NoArg == [kind |-> "None", text |-> <<>>]
TypeError == [kind |-> "TypeError", text |-> <<>>]

WithFlag(flag, text) == IF flag = "" THEN text ELSE <<flag, SP>> \o text

\* argstr % value
Interpolate(f, v) ==
    CASE f.fmt = "" -> TypeError
      [] f.fmt = "%s %s" ->
            IF v.t = "tuple" /\ Len(v.items) = 2
            THEN Rendered(WithFlag(f.flag, <<Str(v.items[1]), SP, Str(v.items[2])>>))
            ELSE TypeError
      [] f.fmt = "%s" ->
            IF v.t = "tuple" THEN TypeError ELSE Rendered(WithFlag(f.flag, <<Str(v)>>))
      [] f.fmt = "%d" ->
            IF v.t = "int" THEN Rendered(WithFlag(f.flag, <<IntStr(v.n)>>)) ELSE TypeError
      [] f.fmt = "%.1f" ->
            IF v.t = "float" THEN Rendered(WithFlag(f.flag, <<FixedStr(v.tenths)>>))
            ELSE TypeError
      [] f.fmt = "%g" ->
            IF v.t = "float" THEN Rendered(WithFlag(f.flag, <<GeneralStr(v.tenths)>>))
            ELSE TypeError

\* CommandLine._format_arg, reached through super()._format_arg
BaseFormatArg(f, v) ==
    IF f.type = "Bool" /\ f.fmt = ""
    THEN (IF v.b THEN Rendered(<<f.flag>>) ELSE NoArg)
    ELSE IF f.type \in {"MultiFile", "MultiTuple"}
    THEN Rendered(WithFlag(f.flag,
                  Join(<<SP>>, [i \in 1..Len(v.items) |-> <<Str(v.items[i])>>])))
    ELSE Interpolate(f, v)

\* the str "-from-cropped ", with its trailing blank
FromCropped == [t |-> "text", text |-> <<"-from-cropped", SP>>]

\* one pass of the loop body: val after "if val[-1] is True: val = val[:2] + (...)"
GroupItems(val) ==
    IF val.items[Len(val.items)] = B(TRUE)
    THEN SubSeq(val.items, 1, 2) \o <<FromCropped>>
    ELSE val.items

\* the text of one item of the joined tuple
ItemText(item) == IF item.t = "text" THEN item.text ELSE <<Str(item)>>

\* " ".join((f"-{name}",) + val)
GroupText(name, val) ==
    Join(<<SP>>, <<(<<"-" \o name>>)>>
                 \o [i \in 1..Len(GroupItems(val)) |-> ItemText(GroupItems(val)[i])])

\* whether " ".join accepts every item: each must be a str
GroupJoinable(val) ==
    \A i \in 1..Len(GroupItems(val)) : GroupItems(val)[i].t \in {"str", "path", "text"}

RECURSIVE Accumulate(_, _, _)
\* argstr += ... over the list, groups appended one after another
Accumulate(name, items, i) ==
    IF i > Len(items) THEN <<>> ELSE GroupText(name, items[i]) \o Accumulate(name, items, i + 1)

\* CiftiCreateDenseFromTemplate._format_arg
CiftiCreateDenseFromTemplate_format_arg(f, v) ==
    IF f.name \in {"metric", "label", "volume"}
    THEN IF \A i \in 1..Len(v.items) : GroupJoinable(v.items[i])
         THEN Rendered(Accumulate(f.name, v.items, 1))
         ELSE TypeError
    ELSE BaseFormatArg(f, v)

\* both slots falling back to in_file
VolumeAffineResample_format_arg_SameFallback(f, v, inp) ==
    IF f.name = "flirt" /\ Truthy(v)
    THEN BaseFormatArg(f, Tup(<<
            IF Truthy(inp["flirt_source_volume"]) THEN inp["flirt_source_volume"]
            ELSE inp["in_file"],
            IF Truthy(inp["flirt_target_volume"]) THEN inp["flirt_target_volume"]
            ELSE inp["in_file"] >>))
    ELSE BaseFormatArg(f, v)

\* VolumeAffineResample._format_arg
VolumeAffineResample_format_arg(f, v, inp) ==
    IF f.name = "flirt" /\ Truthy(v)
    THEN BaseFormatArg(f, Tup(<<
            IF Truthy(inp["flirt_source_volume"]) THEN inp["flirt_source_volume"]
            ELSE inp["in_file"],
            IF Truthy(inp["flirt_target_volume"]) THEN inp["flirt_target_volume"]
            ELSE inp["volume_space"] >>))
    ELSE BaseFormatArg(f, v)

\* self._format_arg of class c
format_arg(c, f, v, inp) ==
    CASE c = "CiftiCreateDenseFromTemplate" -> CiftiCreateDenseFromTemplate_format_arg(f, v)
      [] c = "VolumeAffineResample" -> VolumeAffineResample_format_arg(f, v, inp)
      [] OTHER -> BaseFormatArg(f, v)

----------------------------------------------------------------------------
(* Output names derived from in_file *)

SpecialExtensions == {<<".nii", ".gz">>, <<".tar", ".gz">>, <<".niml", ".dset">>}

\* split_filename on a file name: the base and the extension, both as pieces
split_filename(name) ==
    LET n == Len(name)
    IN  IF n >= 3 /\ SubSeq(name, n - 1, n) \in SpecialExtensions
        THEN [base |-> SubSeq(name, 1, n - 2), ext |-> SubSeq(name, n - 1, n)]
        ELSE IF n >= 2
        THEN [base |-> SubSeq(name, 1, n - 1), ext |-> SubSeq(name, n, n)]
        ELSE [base |-> name, ext |-> <<>>]

\* name_template % base
ApplyTemplate(tpl, base) ==
    LET pre == [base EXCEPT ![1] = tpl.pre \o @]
    IN  [pre EXCEPT ![Len(pre)] = @ \o tpl.suf] \o tpl.exts

\* CommandLine._filename_from_source for a field whose explicit value holds no "%s"
filename_from_source(f, inp) ==
    LET source == inp[f.name_source]
        src == split_filename(source.name)
        retval == ApplyTemplate(f.template, src.base)
        ext == split_filename(retval).ext
    IN  IF isdefined(inp[f.name]) \/ f.name_source = "" THEN inp[f.name]
        ELSE IF ~isdefined(source) THEN Undefined
        ELSE IF f.keep_extension /\ ext = <<>> /\ src.ext # <<>>
        THEN P("", retval \o src.ext, FALSE)
        ELSE P("", retval, FALSE)

----------------------------------------------------------------------------
(* Checks and command-line assembly of the base interface *)

\* BaseInterface._check_requires raises for this field
RequiresUnmet(f, inp) ==
    /\ f.requires # {}
    /\ \E r \in f.requires : ~isdefined(inp[r])
    /\ isdefined(inp[f.name])

\* whether _check_mandatory_inputs raises when it visits field f
Raises(f, inp) ==
    IF f.mandatory THEN ~isdefined(inp[f.name]) \/ RequiresUnmet(f, inp)
    ELSE RequiresUnmet(f, inp)

\* _check_mandatory_inputs: the fields it would raise for, mandatory traits first
Violations(c, inp) ==
    LET spec == input_spec(c)
        raising(f) == Raises(f, inp)
        first(f) == f.mandatory /\ raising(f)
        second(f) == ~f.mandatory /\ raising(f)
    IN  SelectSeq(spec, first) \o SelectSeq(spec, second)

\* sorted() of the names of the traits with an argstr and no position
UnpositionedOrder(c) ==
    CASE c = "CiftiCreateDenseTimeseries" -> <<"timestart", "timestep", "unit">>
      [] c = "VolumeLabelImport" ->
            <<"discard_others", "drop_unused_labels", "subvolume", "unlabeled_values">>
      [] OTHER -> <<>>

\* the value _parse_inputs renders for a trait
ArgValue(f, inp) ==
    IF f.name_source # "" THEN filename_from_source(f, inp) ELSE inp[f.name]

\* the traits _parse_inputs renders: an argstr and a defined value
Renderable(c, inp) ==
    {f \in {input_spec(c)[i] : i \in 1..Len(input_spec(c))} :
        f.hasArg /\ isdefined(ArgValue(f, inp))}

Arg(c, f, inp) == [name |-> f.name, arg |-> format_arg(c, f, ArgValue(f, inp), inp)]

RECURSIVE SortedByPosition(_, _, _)
\* [el for _, el in sorted(initial_args.items())]: a dict keyed by position
SortedByPosition(c, fields, inp) ==
    IF fields = {} THEN <<>>
    ELSE LET p == CHOOSE q \in {f.position : f \in fields} :
                      \A f \in fields : q <= f.position
             f == CHOOSE g \in fields : g.position = p
         IN  <<Arg(c, f, inp)>>
             \o SortedByPosition(c, {g \in fields : g.position # p}, inp)

\* the unpositioned arguments of the rendered traits, by name
Unpositioned(c, fields, inp) ==
    LET present(n) == \E f \in fields : f.name = n /\ ~f.positioned
        arg(n) == Arg(c, CHOOSE f \in fields : f.name = n, inp)
    IN  [i \in 1..Len(SelectSeq(UnpositionedOrder(c), present)) |->
            arg(SelectSeq(UnpositionedOrder(c), present)[i])]

\* all_args = initial_args + final_args, an argument of None left out
AllArgs(c, fields, inp) ==
    LET emitted(a) == a.arg.kind # "None"
    IN  SelectSeq(SortedByPosition(c, {f \in fields : f.positioned}, inp)
                  \o Unpositioned(c, fields, inp), emitted)

\* CommandLine._parse_inputs: positioned arguments, then the others by name
parse_inputs(c, inp) == AllArgs(c, Renderable(c, inp), inp)

\* formatting one of the arguments raised
Failed(parsed) == \E i \in 1..Len(parsed) : parsed[i].arg.kind = "TypeError"

\* the arguments with the text each contributes
Texts(parsed) ==
    [i \in 1..Len(parsed) |-> [name |-> parsed[i].name, text |-> parsed[i].arg.text]]

\* CommandLine.cmdline: " ".join([self.cmd] + self._parse_inputs())
cmdline(c, parsed) ==
    Join(<<SP>>, <<cmd(c)>> \o [i \in 1..Len(parsed) |-> parsed[i].arg.text])

----------------------------------------------------------------------------
(* One invocation *)

NoRejection == [field |-> "", value |-> Undefined]

\* the optional fields the caller has given a value of their own
OptSet(c, inp) ==
    LET spec == input_spec(c)
    IN  {spec[k].name : k \in {j \in 1..Len(spec) :
            ~spec[j].mandatory /\ inp[spec[j].name] # spec[j].default}}

Init ==
    /\ cls \in Classes
    /\ inputs = [n \in FieldNames(cls) |-> trait(cls, n).default]
    /\ rejected = NoRejection
    /\ pc = "assign"
    /\ args = <<>>
    /\ outcome = "none"
    /\ errfield = ""
    /\ returncode = 0
    /\ outExists = FALSE
    /\ spawned = 0
    /\ trace = <<>>

\* position of the field in the declaration of the input spec
Index(c, name) == CHOOSE k \in 1..Len(input_spec(c)) : input_spec(c)[k].name = name

\* the last declared field the caller has assigned, 0 when there is none
Cursor(c, inp) ==
    LET set == {k \in 1..Len(input_spec(c)) :
                   inp[input_spec(c)[k].name] # input_spec(c)[k].default}
    IN  IF set = {} THEN 0 ELSE CHOOSE k \in set : \A j \in set : j <= k

\* The fields the caller assigns next.  Each trait validates its own value only, so
\* the assignments are taken in the order of declaration; at most MaxOpt optional
\* fields are given a value, and a field that holds a value is not given another.
Assignable(c, inp) ==
    LET cursor == Cursor(c, inp)
        opt == OptSet(c, inp)
        room == Cardinality(opt) < MaxOpt
        spec == input_spec(c)
    IN  {spec[k].name : k \in {j \in 1..Len(spec) :
            /\ j >= cursor
            /\ spec[j].mandatory \/ spec[j].name \in opt \/ room}}

\* self.inputs.<name> = v: the trait validates v, and a refused value changes nothing
SetInput(name, v) ==
    /\ pc = "assign"
    /\ TraitOk(trait(cls, name), v) => inputs[name] = trait(cls, name).default
    /\ IF TraitOk(trait(cls, name), v)
       THEN /\ inputs' = [inputs EXCEPT ![name] = TraitValue(trait(cls, name), v)]
            /\ rejected' = NoRejection
       ELSE /\ inputs' = inputs
            /\ rejected' = [field |-> name, value |-> v]
    /\ UNCHANGED <<cls, pc, args, outcome, errfield, returncode, outExists, spawned, trace>>

\* run(): self._check_mandatory_inputs()
Validate ==
    /\ pc = "assign"
    /\ rejected' = NoRejection
    /\ trace' = Append(trace, "validate")
    /\ IF Violations(cls, inputs) = <<>>
       THEN /\ pc' = "validated"
            /\ UNCHANGED <<outcome, errfield>>
       ELSE /\ pc' = "done"
            /\ outcome' = "ValidationError"
            /\ errfield' = Violations(cls, inputs)[1].name
    /\ UNCHANGED <<cls, inputs, args, returncode, outExists, spawned>>

\* _run_interface: runtime.cmdline = self.cmdline
Render ==
    /\ pc = "validated"
    /\ trace' = Append(trace, "render")
    /\ IF Failed(parse_inputs(cls, inputs))
       THEN /\ pc' = "done"
            /\ outcome' = "RenderError"
            /\ args' = <<>>
       ELSE /\ pc' = "rendered"
            /\ outcome' = outcome
            /\ args' = Texts(parse_inputs(cls, inputs))
    /\ UNCHANGED <<cls, inputs, rejected, errfield, returncode, outExists, spawned>>

\* the command run again after a nonzero exit
Spawn_Retried(code, produced) ==
    /\ pc = "rendered" /\ spawned < 2
    /\ trace' = Append(trace, "spawn")
    /\ spawned' = spawned + 1
    /\ returncode' = code
    /\ outExists' = produced
    /\ IF code = 0
       THEN pc' = "exited" /\ outcome' = outcome
       ELSE pc' = "rendered" /\ outcome' = outcome
    /\ UNCHANGED <<cls, inputs, rejected, args, errfield>>

\* _run_interface: run_command, then the return code is checked
Spawn(code, produced) ==
    /\ pc = "rendered"
    /\ trace' = Append(trace, "spawn")
    /\ spawned' = spawned + 1
    /\ returncode' = code
    /\ outExists' = produced
    /\ IF code = 0
       THEN pc' = "exited" /\ outcome' = outcome
       ELSE pc' = "done" /\ outcome' = "ExecutionError"
    /\ UNCHANGED <<cls, inputs, rejected, args, errfield>>

\* aggregate_outputs: out_file of the output spec is set to the resolved path
AggregateOutputs ==
    /\ pc = "exited"
    /\ trace' = Append(trace, "outputs")
    /\ pc' = "done"
    /\ outcome' = IF OutputMustExist(cls) /\ ~outExists THEN "PostconditionError"
                  ELSE "Result"
    /\ UNCHANGED <<cls, inputs, rejected, args, errfield, returncode, outExists, spawned>>

Next ==
    \/ /\ pc = "assign"
       /\ \E name \in Assignable(cls, inputs) :
            \E v \in RawValues(cls, trait(cls, name)) : SetInput(name, v)
    \/ Validate
    \/ Render
    \/ \E code \in {0, 1}, produced \in BOOLEAN : Spawn(code, produced)
    \/ AggregateOutputs

Spec == Init /\ [][Next]_vars

\* the command line as the child process receives it
CommandLine == cmdline(cls, [i \in 1..Len(args) |-> [arg |-> [text |-> args[i].text]]])

----------------------------------------------------------------------------
(* Vocabulary of the properties *)

FT == "CiftiCreateDenseFromTemplate"
VR == "VolumeAffineResample"

\* run() has taken the step
Ran(step) == \E i \in 1..Len(trace) : trace[i] = step

\* a command line was assembled in this run
Assembled == Ran("render") /\ outcome # "RenderError"

HasArg(name) == \E i \in 1..Len(args) : args[i].name = name
ArgOf(name) == args[CHOOSE i \in 1..Len(args) : args[i].name = name].text

\* the tokens '-<name> <structure> <path>' and '-from-cropped' for a True third element
ExpectedGroup(name, tup) ==
    <<"-" \o name, tup.items[1].s, PathStr(tup.items[2])>>
    \o (IF Len(tup.items) = 3 /\ tup.items[3] = B(TRUE) THEN <<"-from-cropped">> ELSE <<>>)

RECURSIVE ExpectedGroups(_, _)
ExpectedGroups(name, items) ==
    IF items = <<>> THEN <<>>
    ELSE ExpectedGroup(name, Head(items)) \o ExpectedGroups(name, Tail(items))

----------------------------------------------------------------------------
(* C1: in CiftiCreateDenseFromTemplate every accepted volume entry renders: rendering
   never raises, whatever the boolean of a 3-tuple, and a single entry
   (structure, path, True) gives '-volume <structure> <path> -from-cropped' while
   (structure, path, False) and (structure, path) give '-volume <structure> <path>'. *)
C1_VolumeBooleanRenders ==
    (cls = FT /\ Ran("render") /\ isdefined(inputs["volume"])) =>
        /\ outcome # "RenderError"
        /\ Len(inputs["volume"].items) = 1 =>
              Tokens(ArgOf("volume")) = ExpectedGroup("volume", inputs["volume"].items[1])

(* C2: in CiftiCreateDenseFromTemplate a list of n tuples assigned to metric, label or
   volume renders, split on whitespace, as exactly the n flag groups in list order,
   no token of one group fused with a token of the next. *)
C2_GroupsSeparate ==
    (cls = FT /\ Assembled) =>
        \A name \in {"metric", "label", "volume"} :
            isdefined(inputs[name]) =>
                Tokens(ArgOf(name)) = ExpectedGroups(name, inputs[name].items)

\* the path a flirt slot shows: the auxiliary field if supplied, else the fallback
FlirtSlot(aux, fallback) ==
    IF isdefined(inputs[aux]) THEN PathStr(inputs[aux]) ELSE PathStr(inputs[fallback])

(* C3: in VolumeAffineResample, whenever flirt is True the command line ends with
   '-flirt <source> <target>', source being flirt_source_volume if supplied and
   in_file otherwise, target being flirt_target_volume if supplied and volume_space
   otherwise, each slot falling back on its own. *)
C3_FlirtFallbacks ==
    (cls = VR /\ Ran("render") /\ inputs["flirt"] = B(TRUE)) =>
        /\ outcome # "RenderError"
        /\ LET toks == Tokens(CommandLine)
               n == Len(toks)
           IN  /\ n >= 3
               /\ SubSeq(toks, n - 2, n) =
                    <<"-flirt", FlirtSlot("flirt_source_volume", "in_file"),
                      FlirtSlot("flirt_target_volume", "volume_space")>>

\* flirt with only the source volume supplied, the command line assembled
C3_Witness ==
    /\ cls = VR /\ pc = "rendered" /\ inputs["flirt"] = B(TRUE)
    /\ isdefined(inputs["flirt_source_volume"])
    /\ ~isdefined(inputs["flirt_target_volume"])

(* C4: in CiftiCreateDenseFromTemplate, series_step, series_start and series_unit each
   need series: with any of them supplied and series not supplied, validation fails
   and no command is assembled or executed. *)
C4_SeriesCompanionRequired ==
    (/\ cls = FT /\ Ran("validate")
     /\ ~isdefined(inputs["series"])
     /\ \E n \in {"series_step", "series_start", "series_unit"} : isdefined(inputs[n])) =>
        outcome = "ValidationError" /\ ~Ran("render") /\ spawned = 0

\* the companion each field of the claim declares
CompanionOf ==
    [n \in {"roi_left", "roi_right", "roi_cerebellum", "left_corrected_areas",
            "right_corrected_areas", "cerebellum_corrected_areas",
            "volume_all_from_cropped", "series_step", "series_start",
            "flirt_source_volume", "flirt_target_volume"} |->
        CASE n = "roi_left" -> "left_metric"
          [] n = "roi_right" -> "right_metric"
          [] n = "roi_cerebellum" -> "cerebellum_metric"
          [] n = "left_corrected_areas" -> "left_surface"
          [] n = "right_corrected_areas" -> "right_surface"
          [] n = "cerebellum_corrected_areas" -> "cerebellum_surface"
          [] n = "volume_all_from_cropped" -> "volume_all"
          [] n \in {"series_step", "series_start"} -> "series"
          [] n \in {"flirt_source_volume", "flirt_target_volume"} -> "flirt"]

\* the fields of this invocation supplied without their companion
Unaccompanied ==
    {n \in DOMAIN CompanionOf \cap DOMAIN inputs :
        isdefined(inputs[n]) /\ ~isdefined(inputs[CompanionOf[n]])}

\* the mandatory fields of each class
MandatoryFields ==
    [c \in Classes |->
        CASE c = FT -> {"in_file"}
          [] c = "CiftiCreateDenseTimeseries" -> {"in_file", "structure_label_volume"}
          [] c = "CiftiDilate" ->
                {"in_file", "direction", "surface_distance", "volume_distance"}
          [] c = VR -> {"in_file", "volume_space", "method", "affine"}
          [] c \in {"VolumeAllLabelsToROIs", "VolumeLabelExportTable"} ->
                {"in_file", "label_map"}
          [] c = "VolumeLabelImport" -> {"in_file", "label_list_file"}]

Omitted == {n \in MandatoryFields[cls] : ~isdefined(inputs[n])}

(* C5: a field that declares a required companion, supplied without it, makes
   validation fail whatever the other optional fields hold: the run ends in a
   ValidationError before anything is assembled or spawned, the error names a field
   supplied without its companion, and names this field when it is the only one. *)
C5_CompanionFailure ==
    (Ran("validate") /\ Unaccompanied # {}) =>
        /\ pc = "done" /\ outcome = "ValidationError"
        /\ ~Ran("render") /\ spawned = 0
        /\ Omitted = {} => errfield \in Unaccompanied

\* a companion-required field alone without its companion, another optional field set
C5_Witness ==
    /\ pc = "done" /\ outcome = "ValidationError"
    /\ Omitted = {} /\ Cardinality(Unaccompanied) = 1
    /\ \E n \in DOMAIN inputs \ (Unaccompanied \cup MandatoryFields[cls]) :
          isdefined(inputs[n]) /\ inputs[n] # trait(cls, n).default

(* C6: for every class and every mandatory field of it, a run that omits the field
   ends in a ValidationError, and the child process is never spawned in that run. *)
C6_MandatoryOmitted ==
    (Ran("validate") /\ Omitted # {}) =>
        /\ pc = "done" /\ outcome = "ValidationError" /\ errfield \in Omitted
        /\ ~Ran("spawn") /\ spawned = 0

\* a run of CiftiDilate that omitted volume_distance only
C6_Witness ==
    /\ cls = "CiftiDilate" /\ pc = "done" /\ outcome = "ValidationError"
    /\ Omitted = {"volume_distance"}

\* the positioned traits of a class
Positioned(c) == {i \in 1..Len(input_spec(c)) : input_spec(c)[i].positioned}

\* the tokens of the rendered arguments, one after another
RECURSIVE ArgTokens(_)
ArgTokens(i) == IF i > Len(args) THEN <<>> ELSE Tokens(args[i].text) \o ArgTokens(i + 1)

(* C7: in each of the seven input specs the declared positions are pairwise distinct,
   and in every assembled command line the arguments of the positioned fields follow
   the command prefix in strictly ascending position order. *)
C7_PositionsAscending ==
    /\ \A c \in Classes : \A i, j \in Positioned(c) :
          i # j => input_spec(c)[i].position # input_spec(c)[j].position
    /\ Assembled =>
          /\ Tokens(CommandLine) = Tokens(cmd(cls)) \o ArgTokens(1)
          /\ \A i, j \in 1..Len(args) :
                (i < j /\ trait(cls, args[i].name).positioned) =>
                    \/ ~trait(cls, args[j].name).positioned
                    \/ trait(cls, args[i].name).position
                         < trait(cls, args[j].name).position
          /\ \A n \in DOMAIN inputs :
                (trait(cls, n).positioned /\ trait(cls, n).type # "Bool"
                 /\ isdefined(inputs[n])) => HasArg(n)

\* an assembled CiftiDilate command with two optional positioned fields set
C7_Witness ==
    /\ cls = "CiftiDilate" /\ pc = "rendered"
    /\ HasArg("left_surface") /\ HasArg("nearest")

\* the template of each class of the claim, around the base name
TemplateText ==
    [c \in Classes \ {FT} |->
        CASE c = "VolumeLabelImport" -> <<"", "_labels.nii.gz">>
          [] c = "VolumeLabelExportTable" -> <<"", "_labels.txt">>
          [] c = "VolumeAllLabelsToROIs" -> <<"", "_rois.nii.gz">>
          [] c = VR -> <<"resampled_", ".nii.gz">>
          [] c = "CiftiDilate" -> <<"dilated_", ".nii">>
          [] c = "CiftiCreateDenseTimeseries" -> <<"", ".dtseries.nii">>]

\* the base name of each input file: no directory, no extension
BaseName(path) ==
    CASE path = "/data/atlas.nii" -> "atlas"
      [] path = "/data/T1w.nii.gz" -> "T1w"
      [] path = "/data/func.dtseries.nii" -> "func.dtseries"
      [] path = "/data/functional.nii" -> "functional"
      [] path = "/data/labels" -> "labels"

(* C8: for the six commands with a templated out_file, the rendered out_file is the
   template applied to the extension-stripped base name of in_file when out_file is
   not supplied, and exactly the supplied value when it is. *)
C8_DerivedOutFile ==
    (cls # FT /\ Assembled) =>
        /\ HasArg("out_file")
        /\ ArgOf("out_file") =
              IF isdefined(inputs["out_file"]) THEN <<PathStr(inputs["out_file"])>>
              ELSE <<TemplateText[cls][1] \o BaseName(PathStr(inputs["in_file"]))
                       \o TemplateText[cls][2]>>

\* the export table derived from the input T1w.nii.gz
C8_Witness ==
    /\ cls = "VolumeLabelExportTable" /\ pc = "rendered"
    /\ ~isdefined(inputs["out_file"])
    /\ PathStr(inputs["in_file"]) = "/data/T1w.nii.gz"
    /\ ArgOf("out_file") = <<"T1w_labels.txt">>

\* the arities the claim allows for each field
AllowedTuple(name, tup) ==
    /\ tup.t = "tuple"
    /\ Len(tup.items) >= 1
    /\ tup.items[1].t = "str" /\ tup.items[1].s \in VALID_STRUCTURES
    /\ IF name = "volume"
       THEN \/ Len(tup.items) = 2
            \/ Len(tup.items) = 3 /\ tup.items[3].t = "bool"
       ELSE Len(tup.items) = 2

\* every tuple the three fields hold is one the claim allows
HeldTuplesAllowed ==
    cls = FT =>
        \A name \in {"metric", "label", "volume"} :
            isdefined(inputs[name]) =>
                \A i \in 1..Len(inputs[name].items) :
                    AllowedTuple(name, inputs[name].items[i])

\* the value of the refused assignment holds a tuple the claim forbids
RefusedForTuple(r) ==
    /\ r.field \in {"metric", "label", "volume"}
    /\ \E i \in 1..Len(r.value.items) : ~AllowedTuple(r.field, r.value.items[i])

(* C9: in CiftiCreateDenseFromTemplate there are 33 structure names; a tuple with
   another first element, or with an arity the field does not allow, is never
   stored in metric, label or volume: the assignment is refused, the field keeps
   the value it had, and no child process is started by it. *)
C9_BadTupleRefused ==
    [][ /\ Cardinality(VALID_STRUCTURES) = 33
        /\ HeldTuplesAllowed'
        /\ (rejected' # NoRejection /\ rejected' # rejected) =>
              inputs' = inputs /\ spawned' = spawned /\ outcome' = outcome
      ]_vars

\* volume holds a value and a later assignment of a forbidden tuple was refused
C9_Witness ==
    /\ cls = FT /\ rejected # NoRejection /\ rejected.field = "volume"
    /\ RefusedForTuple(rejected)
    /\ isdefined(inputs["volume"])

(* C10: a Result is returned only when validation passed, the child exited with
   status zero and out_file exists; a zero exit without the out_file ends in a
   PostconditionError, a nonzero exit in an ExecutionError, and neither yields a
   Result. *)
C10_ResultOnlyOnSuccess ==
    /\ outcome = "Result" =>
          /\ Omitted = {} /\ Unaccompanied = {}
          /\ trace = <<"validate", "render", "spawn", "outputs">>
          /\ returncode = 0 /\ outExists
    /\ (pc = "done" /\ Ran("spawn") /\ returncode = 0 /\ ~outExists) =>
          outcome = "PostconditionError"
    /\ (Ran("spawn") /\ returncode # 0) =>
          pc = "done" /\ outcome = "ExecutionError"

\* the child exited with status zero and left no out_file
C10_Witness ==
    pc = "done" /\ outcome = "PostconditionError" /\ returncode = 0 /\ spawned = 1

\* the steps of run(), in the order of its code
Steps == <<"validate", "render", "spawn", "outputs">>

\* what run() hands back to the caller: a Result or one error
Outcomes ==
    {"Result", "ValidationError", "RenderError", "ExecutionError", "PostconditionError"}

(* C11: in every run the steps taken are validate, render, spawn, check outputs in
   this order, none of them twice; the child process is spawned at most once, also
   after a nonzero exit or a missing output; the run ends with exactly one outcome,
   a Result or a single error, and nothing happens after the outcome is reported. *)
C11_OneRunOneOutcome ==
    /\ [](/\ Len(trace) <= Len(Steps) /\ trace = SubSeq(Steps, 1, Len(trace))
          /\ spawned <= 1 /\ (spawned = 1 <=> Ran("spawn"))
          /\ (pc = "done" <=> outcome \in Outcomes)
          /\ (pc # "done" <=> outcome = "none"))
    /\ [][outcome = "none" /\ (trace' # trace => Len(trace') = Len(trace) + 1)]_vars

\* the child exited with a nonzero status: one spawn, one ExecutionError
C11_Witness ==
    /\ pc = "done" /\ outcome = "ExecutionError" /\ returncode # 0
    /\ spawned = 1 /\ trace = <<"validate", "render", "spawn">>

\* the fields declared with usedefault=True
AlwaysDefaulted(c) ==
    {input_spec(c)[i].name : i \in {k \in 1..Len(input_spec(c)) : input_spec(c)[k].usedefault}}

\* the last n tokens of a token sequence
LastTokens(toks, n) == SubSeq(toks, Len(toks) - n + 1, Len(toks))

\* the caller gave no optional field a value of their own
OnlyMandatorySet == \A n \in DOMAIN inputs \ MandatoryFields[cls] : inputs[n] = trait(cls, n).default

(* C12: timestep, timestart and unit of CiftiCreateDenseTimeseries and
   unlabeled_values of VolumeLabelImport are rendered in every assembled command
   line, the caller having assigned them or not; with only the mandatory inputs
   set the command line ends in '-timestart 0 -timestep 1 -unit SECOND' resp.
   '-unlabeled-value 0'; the four fields carry no position and their tokens come
   after the tokens of every positioned field. *)
C12_DefaultsRendered ==
    /\ AlwaysDefaulted("CiftiCreateDenseTimeseries") = {"timestep", "timestart", "unit"}
    /\ AlwaysDefaulted("VolumeLabelImport") = {"unlabeled_values"}
    /\ \A c \in Classes : \A n \in AlwaysDefaulted(c) : ~trait(c, n).positioned
    /\ Assembled =>
          /\ \A n \in AlwaysDefaulted(cls) : HasArg(n)
          /\ \A i, j \in 1..Len(args) :
                (args[i].name \in AlwaysDefaulted(cls) /\ trait(cls, args[j].name).positioned)
                    => j < i
          /\ (cls = "CiftiCreateDenseTimeseries" /\ OnlyMandatorySet) =>
                /\ Len(Tokens(CommandLine)) = 12
                /\ LastTokens(Tokens(CommandLine), 6)
                      = <<"-timestart", "0", "-timestep", "1", "-unit", "SECOND">>
          /\ (cls = "VolumeLabelImport" /\ OnlyMandatorySet) =>
                /\ Len(Tokens(CommandLine)) = 7
                /\ LastTokens(Tokens(CommandLine), 2) = <<"-unlabeled-value", "0">>

\* CiftiCreateDenseTimeseries assembled with its two mandatory inputs alone
C12_Witness ==
    /\ cls = "CiftiCreateDenseTimeseries" /\ Assembled /\ OnlyMandatorySet
    /\ HasArg("in_file") /\ HasArg("structure_label_volume") /\ HasArg("unit")

\* the tokens of the command line, as a set
TokenSet == {Tokens(CommandLine)[i] : i \in 1..Len(Tokens(CommandLine))}

(* C13: in VolumeAffineResample with flirt unset or False, once validation has
   passed, the command line is assembled without an error, it holds no '-flirt'
   token and neither of the auxiliary source and target paths; '-flirt %s %s' is
   never formatted with the bare boolean. *)
C13_NoFlirtWhenFalse ==
    (cls = VR /\ Ran("render") /\ ~Truthy(inputs["flirt"])) =>
        /\ outcome # "RenderError"
        /\ ~HasArg("flirt") /\ "-flirt" \notin TokenSet
        /\ \A aux \in {"flirt_source_volume", "flirt_target_volume"} :
              isdefined(inputs[aux]) => PathStr(inputs[aux]) \notin TokenSet

\* the index of the argument of a field in the assembled command
ArgIndex(name) == CHOOSE i \in 1..Len(args) : args[i].name = name

(* C14: in every command line CiftiCreateDenseFromTemplate assembles after
   validation, the values of series_step and series_start and the '-unit' option
   appear only together with '-series', and the '-from-cropped' of
   volume_all_from_cropped appears only directly after '-volume-all <path>';
   series assigned False is no exception. *)
C14_DependentTokens ==
    (cls = FT /\ Assembled) =>
        /\ (HasArg("series_step") \/ HasArg("series_start") \/ "-unit" \in TokenSet)
              => "-series" \in TokenSet
        /\ HasArg("volume_all_from_cropped") =>
              /\ ArgIndex("volume_all_from_cropped") > 1
              /\ args[ArgIndex("volume_all_from_cropped") - 1].name = "volume_all"

====
